---- MODULE Spec2Model ----
(***************************************************************************)
(* Model of the streaming ZIP encoder of ssbt                              *)
(* (ssbt-tool/src/packaging/zip.rs).                                       *)
(*                                                                         *)
(* Unsigned integers keep their width.  TLC's integers are 32-bit signed,  *)
(* so a u16 is a number 0..65535, a u32 is a pair of 16-bit limbs and a    *)
(* u64 is a 4-tuple of 16-bit limbs, least significant limb first.  The    *)
(* output is kept byte-exact: every write appends the little-endian bytes  *)
(* the code writes.                                                        *)
(***************************************************************************)
EXTENDS Integers, Sequences, FiniteSets, TLC

\* ------------------------------------------------------------------------
\* Bounds of the model
\* ------------------------------------------------------------------------

\* longest entry list handed to package_zip_streaming
MaxFiles == 2

\* length of the longest source file of the modelled file system
LongLen == 30

\* ------------------------------------------------------------------------
\* Fixed-width unsigned arithmetic
\* ------------------------------------------------------------------------

Limb == 65536

\* n as u64, for a natural number n below 2^31
U64Of(n) == <<n % Limb, n \div Limb, 0, 0>>

\* n as u32, for a natural number n below 2^31
U32Of(n) == <<n % Limb, n \div Limb>>

\* usize/u64 as u16: keeps the low 16 bits
AsU16(n) == n % Limb

RECURSIVE AddLimbs(_, _, _, _)
\* ripple-carry addition of limbs i..4; result is <<limbs, carry out>>
AddLimbs(a, b, i, carry) ==
    IF i > 4 THEN <<<<>>, carry>>
    ELSE LET s == a[i] + b[i] + carry
             rest == AddLimbs(a, b, i + 1, s \div Limb)
         IN  <<<<s % Limb>> \o rest[1], rest[2]>>

\* a + b on u64: the wrapped sum and whether it overflowed
Add64(a, b) ==
    LET r == AddLimbs(a, b, 1, 0)
    IN  [v |-> r[1], overflow |-> r[2] = 1]

RECURSIVE SubLimbs(_, _, _, _)
SubLimbs(a, b, i, borrow) ==
    IF i > 4 THEN <<<<>>, borrow>>
    ELSE LET d == a[i] - b[i] - borrow
             rest == SubLimbs(a, b, i + 1, IF d < 0 THEN 1 ELSE 0)
         IN  <<<<(d + Limb) % Limb>> \o rest[1], rest[2]>>

\* a - b on u64: the wrapped difference and whether it underflowed
Sub64(a, b) ==
    LET r == SubLimbs(a, b, 1, 0)
    IN  [v |-> r[1], overflow |-> r[2] = 1]

\* x > 0xFFFFFFFF for a u64
Gt32(x) == x[3] # 0 \/ x[4] # 0

\* x.min(0xFFFFFFFF) as u32
Min32(x) == IF Gt32(x) THEN <<65535, 65535>> ELSE <<x[1], x[2]>>

\* a < b on u64
Lt64(a, b) == Sub64(a, b).overflow

\* ------------------------------------------------------------------------
\* zip.rs:87-97  little-endian encoders
\* ------------------------------------------------------------------------

write_u16(v) == <<v % 256, v \div 256>>

write_u32(x) == write_u16(x[1]) \o write_u16(x[2])

write_u64(x) == write_u16(x[1]) \o write_u16(x[2]) \o write_u16(x[3]) \o write_u16(x[4])

\* ------------------------------------------------------------------------
\* zip.rs:100-113  crc32
\* ------------------------------------------------------------------------

RECURSIVE XorN(_, _, _)
\* bitwise exclusive or of two numbers below 2^n
XorN(a, b, n) ==
    IF n = 0 THEN 0
    ELSE ((a + b) % 2) + 2 * XorN(a \div 2, b \div 2, n - 1)

\* exclusive or of 4-bit digits, tabulated
XorTab == [a \in 0..15 |-> [b \in 0..15 |-> XorN(a, b, 4)]]

\* a ^ b on 16-bit limbs, digit by digit
Xor16(a, b) ==
      XorTab[a % 16][b % 16]
    + 16 * XorTab[(a \div 16) % 16][(b \div 16) % 16]
    + 256 * XorTab[(a \div 256) % 16][(b \div 256) % 16]
    + 4096 * XorTab[a \div 4096][b \div 4096]

\* a ^ b on u32
Xor32(a, b) == <<Xor16(a[1], b[1]), Xor16(a[2], b[2])>>

\* crc >> 1
Shr1(x) == <<(x[1] \div 2) + (x[2] % 2) * 32768, x[2] \div 2>>

\* 0xEDB88320
Polynomial == <<\H8320, \HEDB8>>

\* 0xFFFFFFFF, the initial register
CrcInit == <<\HFFFF, \HFFFF>>

RECURSIVE CrcShift(_, _)
\* the inner loop: k more rounds of the shift register
CrcShift(crc, k) ==
    IF k = 0 THEN crc
    ELSE LET next == IF crc[1] % 2 # 0 THEN Xor32(Shr1(crc), Polynomial) ELSE Shr1(crc)
         IN  IF next[1] >= 0 THEN CrcShift(next, k - 1) ELSE next

RECURSIVE CrcBytes(_, _, _)
\* the outer loop over the bytes i.. of data
CrcBytes(data, i, crc) ==
    IF i > Len(data) THEN crc
    ELSE LET next == CrcShift(Xor32(crc, <<data[i], 0>>), 8)
         IN  IF next[1] >= 0 THEN CrcBytes(data, i + 1, next) ELSE next

\* crc32 that restarts from the initial register instead of taking current
crc32_Unthreaded(data, current) == CrcBytes(data, 1, CrcInit)

\* crc32(data, current): the register after the bytes of data
crc32(data, current) == CrcBytes(data, 1, current)

\* !crc
Not32(x) == <<65535 - x[1], 65535 - x[2]>>

\* ------------------------------------------------------------------------
\* The file system the encoder reads, and the entries it is handed
\* ------------------------------------------------------------------------

\* longest short read the modelled file system returns
MaxShortRead == 4

\* zip.rs:6
BUFFER_SIZE == 65536

\* source paths: a missing path, a directory, and three regular files
\* (empty, the ASCII digits "123456789", and LongLen distinct bytes)
FileSystem ==
    [p \in {"missing", "dir", "empty", "digits", "long"} |->
        CASE p = "missing" -> [exists |-> FALSE, is_file |-> FALSE, data |-> <<>>]
          [] p = "dir"     -> [exists |-> TRUE,  is_file |-> FALSE, data |-> <<>>]
          [] p = "empty"   -> [exists |-> TRUE,  is_file |-> TRUE,  data |-> <<>>]
          [] p = "digits"  -> [exists |-> TRUE,  is_file |-> TRUE,
                               data |-> <<49, 50, 51, 52, 53, 54, 55, 56, 57>>]
          [] p = "long"    -> [exists |-> TRUE,  is_file |-> TRUE,
                               data |-> [i \in 1..LongLen |-> i]]]

\* FileEntry { source_path, archive_path }; archive_path as its bytes
FileEntry(source, name) == [source_path |-> source, archive_path |-> name]

EntryPool ==
    { FileEntry("missing", <<109>>),
      FileEntry("dir", <<100>>),
      FileEntry("empty", <<101>>),
      FileEntry("digits", <<110, 57>>),
      FileEntry("long", <<108>>) }

FileLists == UNION { [1..n -> EntryPool] : n \in 0..MaxFiles }

\* sizes a read of the source may return when rem bytes are left:
\* a full buffer (or all that is left), or a short read
ReadSizes(rem) ==
    LET full == IF rem < BUFFER_SIZE THEN rem ELSE BUFFER_SIZE
    IN  { k \in 1..full : k <= MaxShortRead \/ k = full }

\* lengths the DEFLATE stream of n input bytes may have; the compressor is
\* flate2's: only the length of its output is modelled (literals in one
\* fixed-Huffman block, or one stored block)
DeflateLens(n) == { n + 2, n + 5 }

\* ------------------------------------------------------------------------
\* State
\* ------------------------------------------------------------------------

VARIABLES
    files,                      \* the entry list (argument)
    compression,                \* "Store" | "Deflate" (argument)
    overflow_checks,            \* build profile: arithmetic overflow panics
    pc,                         \* position in package_zip_streaming
    idx,                        \* index of the entry of the for loop
    out,                        \* the writer: sequence of written segments
    current_offset,             \* u64
    central_directory_entries,  \* Vec<CentralDirectoryEntry>
    local_header_offset,        \* u64, of the entry being processed
    crc,                        \* u32 register
    uncompressed_size,          \* u64
    compressed_size,            \* u64
    pos,                        \* read position in the open source file
    enc_in,                     \* bytes handed to the DeflateEncoder
    cd_idx,                     \* index of the second for loop
    central_dir_offset,         \* u64
    result                      \* "none" until the function returns

\* the run around the encoder: process_files, stream_zip_to_sink and the
\* destinations (process.rs, sink/mod.rs, sink/save_file.rs,
\* sink/send_net.rs, packaging/mod.rs)
VARIABLES
    dry,                        \* config.dry: "None" | "true" | "false"
    route,                      \* the destination and the function serving it
    o_pc,                       \* position of the orchestrating function
    final,                      \* "none" until the run returns to its caller
    printed,                    \* the dry-run listing was printed
    sent,                       \* chunks the producing side emitted, in order
    chan,                       \* the conduit between producer and consumer
    tx_open,                    \* the producer holds its end of the conduit
    rx_open,                    \* the consumer holds its end of the conduit
    held,                       \* the chunk the consumer is writing
    stream_result,              \* result of stream_zip_to_writer
    disk,                       \* parent directories and target file
    duplex,                     \* bytes buffered in tokio::io::duplex
    writer_open,                \* the write half of the duplex is alive
    reader_open,                \* the read half of the duplex is alive
    body,                       \* bytes the HTTP request body has delivered
    up_pc,                      \* position of the upload
    up_result,                  \* "none" until the upload has a result
    requests                    \* HTTP requests issued

\* the configuration phase of main (main.rs)
VARIABLES
    args,                       \* the options given on the command line
    env_config,                 \* read_env()
    file_config,                \* read_config_file(), or Config::default()
    merged,                     \* merge_configs(...), None before the merge
    main_pc                     \* position of main

main_vars == <<args, env_config, file_config, merged, main_pc>>

pipe_vars == <<main_vars, dry, route, o_pc, final, printed, sent, chan, tx_open, rx_open,
               held, stream_result, disk, duplex, writer_open, reader_open,
               body, up_pc, up_result, requests>>

enc_vars == <<files, compression, overflow_checks, pc, idx, out, current_offset,
              central_directory_entries, local_header_offset, crc,
              uncompressed_size, compressed_size, pos, enc_in, cd_idx,
              central_dir_offset, result>>

vars == <<enc_vars, pipe_vars>>

\* no chunk in the consumer's hands
NoChunk == [id |-> 0, left |-> 0]

\* no directory and no file at the destination path
NoDisk == [dirs |-> FALSE, exists |-> FALSE, file |-> <<>>]

\* Option<T>: None, Some(v)
None == <<>>
Some(v) == <<v>>

\* Config::default() (main.rs:9-10): every field None
DefaultConfig ==
    [output |-> None, dry |-> None, max_size |-> None, compress |-> None,
     skip |-> None, paths |-> None]

\* a run that is not started through main
MainIdle ==
    /\ args = DefaultConfig
    /\ env_config = DefaultConfig
    /\ file_config = DefaultConfig
    /\ merged = None
    /\ main_pc = "idle"

\* the encoder run on its own, on a writer of the caller: nothing around it
PipeIdle ==
    /\ MainIdle
    /\ dry = "None"
    /\ route = "none"
    /\ o_pc = "idle"
    /\ final = "none"
    /\ printed = FALSE
    /\ sent = <<>>
    /\ chan = <<>>
    /\ tx_open = FALSE
    /\ rx_open = FALSE
    /\ held = NoChunk
    /\ stream_result = "none"
    /\ disk = NoDisk
    /\ duplex = <<>>
    /\ writer_open = FALSE
    /\ reader_open = FALSE
    /\ body = <<>>
    /\ up_pc = "idle"
    /\ up_result = "none"
    /\ requests = <<>>

Zero64 == <<0, 0, 0, 0>>

\* a segment of the output: the bytes of one write (consecutive payload
\* writes of one entry are kept in one segment); kind and entry say which
\* write of the code produced it
Segment(kind, e, bytes) == [kind |-> kind, entry |-> e, bytes |-> bytes]

RECURSIVE Written(_)
\* number of bytes in the writer
Written(o) == IF o = <<>> THEN 0 ELSE Len(o[Len(o)].bytes) + Written(SubSeq(o, 1, Len(o) - 1))

\* writer.write_all(bytes) succeeded
WriteAll(o, kind, e, bytes) ==
    IF bytes = <<>> THEN o
    ELSE IF o # <<>> /\ kind = "data" /\ o[Len(o)].kind = "data" /\ o[Len(o)].entry = e
         THEN [o EXCEPT ![Len(o)].bytes = @ \o bytes]
         ELSE Append(o, Segment(kind, e, bytes))

\* writer.write_all(bytes) failed: a proper prefix may have reached the
\* writer (nothing, or all but the last byte)
WriteTorn(o, e, bytes) ==
    { o } \cup { Append(o, Segment("torn", e, SubSeq(bytes, 1, Len(bytes) - 1))) : x \in
                 IF Len(bytes) > 1 THEN {1} ELSE {} }

\* ------------------------------------------------------------------------
\* The records of the format (bytes each writer function emits)
\* ------------------------------------------------------------------------

\* zip.rs:76-85: the modification time is ignored; always (0, 0x21)
dos_datetime == <<0, \H21>>

\* zip.rs:348-351
CompressionMethod(c) == IF c = "Store" THEN 0 ELSE 8

\* write_local_header with the sizes-deferred bit left clear
write_local_header_NoDeferBit(file_name, compression_method, modified_time, modified_date) ==
       write_u32(<<\H4b50, \H0403>>)
    \o write_u16(20)
    \o write_u16(0)
    \o write_u16(compression_method)
    \o write_u16(modified_time)
    \o write_u16(modified_date)
    \o write_u32(<<0, 0>>)
    \o write_u32(<<0, 0>>)
    \o write_u32(<<0, 0>>)
    \o write_u16(AsU16(Len(file_name)))
    \o write_u16(0)
    \o file_name

\* zip.rs:116-158
write_local_header(file_name, compression_method, modified_time, modified_date) ==
       write_u32(<<\H4b50, \H0403>>)        \* signature 0x04034b50
    \o write_u16(20)                        \* version needed
    \o write_u16(\H0008)                    \* flag: data descriptor used
    \o write_u16(compression_method)
    \o write_u16(modified_time)
    \o write_u16(modified_date)
    \o write_u32(<<0, 0>>)                  \* CRC-32
    \o write_u32(<<0, 0>>)                  \* compressed size
    \o write_u32(<<0, 0>>)                  \* uncompressed size
    \o write_u16(AsU16(Len(file_name)))
    \o write_u16(0)                         \* extra field length
    \o file_name

\* zip.rs:161-180
write_data_descriptor(crc_value, csize, usize) ==
       write_u32(<<\H4b50, \H0807>>)        \* signature 0x08074b50
    \o write_u32(crc_value)
    \o write_u64(csize)
    \o write_u64(usize)

\* needs_zip64 that looks at the two sizes only
needs_zip64_SizesOnly(entry) ==
    \/ Gt32(entry.compressed_size)
    \/ Gt32(entry.uncompressed_size)

\* zip.rs:219-221
needs_zip64(entry) ==
    \/ Gt32(entry.compressed_size)
    \/ Gt32(entry.uncompressed_size)
    \/ Gt32(entry.local_header_offset)

\* zip.rs:183-251
write_central_directory_header(entry) ==
       write_u32(<<\H4b50, \H0201>>)        \* signature 0x02014b50
    \o write_u16(\H031E)                    \* version made by
    \o write_u16(20)                        \* version needed
    \o write_u16(\H0008)                    \* flag
    \o write_u16(entry.compression_method)
    \o write_u16(entry.modified_time)
    \o write_u16(entry.modified_date)
    \o write_u32(entry.crc32)
    \o write_u32(Min32(entry.compressed_size))
    \o write_u32(Min32(entry.uncompressed_size))
    \o write_u16(AsU16(Len(entry.file_name)))
    \o write_u16(IF needs_zip64(entry) THEN 20 ELSE 0)
    \o write_u16(0)                         \* comment length
    \o write_u16(0)                         \* disk number start
    \o write_u16(0)                         \* internal attributes
    \o write_u32(<<0, \H01A4>>)             \* external attributes 0o644 << 16
    \o write_u32(Min32(entry.local_header_offset))
    \o entry.file_name
    \o (IF needs_zip64(entry)
        THEN    write_u16(\H0001)
             \o write_u16(16)
             \o write_u64(entry.uncompressed_size)
             \o write_u64(entry.compressed_size)
        ELSE <<>>)

\* write_end_of_central_directory without the trailing comment length
write_end_of_central_directory_Short(num_entries, central_dir_size, dir_offset) ==
       write_u32(<<\H4b50, \H0605>>)
    \o write_u16(0)
    \o write_u16(0)
    \o write_u16(num_entries)
    \o write_u16(num_entries)
    \o write_u32(Min32(central_dir_size))
    \o write_u32(Min32(dir_offset))

\* zip.rs:254-285
write_end_of_central_directory(num_entries, central_dir_size, dir_offset) ==
       write_u32(<<\H4b50, \H0605>>)        \* signature 0x06054b50
    \o write_u16(0)
    \o write_u16(0)
    \o write_u16(num_entries)
    \o write_u16(num_entries)
    \o write_u32(Min32(central_dir_size))
    \o write_u32(Min32(dir_offset))
    \o write_u16(0)

\* zip.rs:64-73
CentralDirectoryEntry(name, csize, usize, crc_value, offset, method, time, date) ==
    [file_name |-> name, compressed_size |-> csize, uncompressed_size |-> usize,
     crc32 |-> crc_value, local_header_offset |-> offset,
     compression_method |-> method, modified_time |-> time, modified_date |-> date]

\* ------------------------------------------------------------------------
\* zip.rs:320-447  package_zip_streaming, one action per step
\* ------------------------------------------------------------------------

Init ==
    /\ PipeIdle
    /\ files \in FileLists
    /\ compression \in {"Store", "Deflate"}
    /\ overflow_checks \in BOOLEAN
    /\ pc = "loop"
    /\ idx = 1
    /\ out = <<>>
    /\ current_offset = Zero64
    /\ central_directory_entries = <<>>
    /\ local_header_offset = Zero64
    /\ crc = <<0, 0>>
    /\ uncompressed_size = Zero64
    /\ compressed_size = Zero64
    /\ pos = 0
    /\ enc_in = 0
    /\ cd_idx = 1
    /\ central_dir_offset = Zero64
    /\ result = "none"

\* the function returns r (Ok or an Err kind), or unwinds ("Panic")
Return(r) == result' = r /\ pc' = "done"

\* an arithmetic result the build lets through: overflow panics only
\* when overflow checks are compiled in, and wraps otherwise
Passes(r) == ~(r.overflow /\ overflow_checks)

\* a rejected write whose error is dropped instead of returned
WriteFailureIgnored == UNCHANGED <<pc, result>>

\* the `?` after a write: a rejected write ends the run with the error
WriteFailed == Return("WriteError")

Source == FileSystem[files[idx].source_path]

Name == files[idx].archive_path

\* BeginEntry that leaves the loop at a missing source instead of returning
BeginEntry_Break ==
    /\ pc = "loop"
    /\ idx <= Len(files)
    /\ IF ~Source.exists THEN
            /\ idx' = Len(files) + 1
            /\ UNCHANGED <<pc, result, local_header_offset>>
       ELSE IF ~Source.is_file THEN
            /\ Return("InvalidInput")
            /\ UNCHANGED <<idx, local_header_offset>>
       ELSE \/ /\ Return("IoError")
               /\ UNCHANGED <<idx, local_header_offset>>
            \/ /\ local_header_offset' = current_offset
               /\ pc' = "header"
               /\ UNCHANGED <<idx, result>>
    /\ UNCHANGED <<pipe_vars, files, compression, overflow_checks, out, current_offset,
                   central_directory_entries, crc, uncompressed_size,
                   compressed_size, pos, enc_in, cd_idx, central_dir_offset>>

\* BeginEntry without the is_file check
BeginEntry_NoFileCheck ==
    /\ pc = "loop"
    /\ idx <= Len(files)
    /\ IF ~Source.exists THEN
            /\ Return("NotFound")
            /\ UNCHANGED local_header_offset
       ELSE \/ /\ Return("IoError")
               /\ UNCHANGED local_header_offset
            \/ /\ local_header_offset' = current_offset
               /\ pc' = "header"
               /\ UNCHANGED result
    /\ UNCHANGED <<pipe_vars, files, compression, overflow_checks, idx, out, current_offset,
                   central_directory_entries, crc, uncompressed_size,
                   compressed_size, pos, enc_in, cd_idx, central_dir_offset>>

\* zip.rs:329-353: existence and type checks, metadata, offset capture
BeginEntry ==
    /\ pc = "loop"
    /\ idx <= Len(files)
    /\ IF ~Source.exists THEN
            /\ Return("NotFound")
            /\ UNCHANGED local_header_offset
       ELSE IF ~Source.is_file THEN
            /\ Return("InvalidInput")
            /\ UNCHANGED local_header_offset
       ELSE \/ /\ Return("IoError")              \* metadata()? failed
               /\ UNCHANGED local_header_offset
            \/ /\ local_header_offset' = current_offset
               /\ pc' = "header"
               /\ UNCHANGED result
    /\ UNCHANGED <<pipe_vars, files, compression, overflow_checks, idx, out, current_offset,
                   central_directory_entries, crc, uncompressed_size,
                   compressed_size, pos, enc_in, cd_idx, central_dir_offset>>

\* zip.rs:356-357
WriteLocalHeader ==
    /\ pc = "header"
    /\ LET bytes == write_local_header(Name, CompressionMethod(compression),
                                       dos_datetime[1], dos_datetime[2])
           sum == Add64(current_offset, U64Of(30 + Len(Name)))
       IN  \/ /\ out' \in WriteTorn(out, idx, bytes)
              /\ WriteFailed
              /\ UNCHANGED current_offset
           \/ /\ out' = WriteAll(out, "local", idx, bytes)
              /\ IF Passes(sum)
                 THEN current_offset' = sum.v /\ pc' = "open" /\ UNCHANGED result
                 ELSE Return("Panic") /\ UNCHANGED current_offset
    /\ UNCHANGED <<pipe_vars, files, compression, overflow_checks, idx,
                   central_directory_entries, local_header_offset, crc,
                   uncompressed_size, compressed_size, pos, enc_in, cd_idx,
                   central_dir_offset>>

\* zip.rs:360-365
OpenSource ==
    /\ pc = "open"
    /\ \/ /\ Return("IoError")                   \* File::open failed
          /\ UNCHANGED <<crc, uncompressed_size, compressed_size, pos, enc_in>>
       \/ /\ pos' = 0
          /\ crc' = CrcInit
          /\ uncompressed_size' = Zero64
          /\ compressed_size' = Zero64
          /\ enc_in' = 0
          /\ pc' = "read"
          /\ UNCHANGED result
    /\ UNCHANGED <<pipe_vars, files, compression, overflow_checks, idx, out, current_offset,
                   central_directory_entries, local_header_offset, cd_idx,
                   central_dir_offset>>

\* zip.rs:370-379: one iteration of the Store copy loop
ReadStore ==
    /\ pc = "read"
    /\ compression = "Store"
    /\ \/ /\ Return("IoError")                   \* reader.read failed
          /\ UNCHANGED <<out, crc, uncompressed_size, compressed_size, pos>>
       \/ /\ pos = Len(Source.data)              \* bytes_read == 0
          /\ pc' = "descriptor"
          /\ UNCHANGED <<result, out, crc, uncompressed_size, compressed_size, pos>>
       \/ \E bytes_read \in ReadSizes(Len(Source.data) - pos) :
            LET chunk == SubSeq(Source.data, pos + 1, pos + bytes_read)
                usum == Add64(uncompressed_size, U64Of(bytes_read))
                csum == Add64(compressed_size, U64Of(bytes_read))
            IN  /\ pos' = pos + bytes_read
                /\ crc' = crc32(chunk, crc)
                /\ \/ /\ out' \in WriteTorn(out, idx, chunk)
                      /\ WriteFailed
                      /\ UNCHANGED <<uncompressed_size, compressed_size>>
                   \/ /\ out' = WriteAll(out, "data", idx, chunk)
                      /\ IF Passes(usum) /\ Passes(csum)
                         THEN /\ uncompressed_size' = usum.v
                              /\ compressed_size' = csum.v
                              /\ UNCHANGED <<pc, result>>
                         ELSE /\ Return("Panic")
                              /\ UNCHANGED <<uncompressed_size, compressed_size>>
    /\ UNCHANGED <<pipe_vars, files, compression, overflow_checks, idx, current_offset,
                   central_directory_entries, local_header_offset, enc_in,
                   cd_idx, central_dir_offset>>

\* zip.rs:388-396: one iteration of the Deflate loop; the encoder keeps
\* what it is given until finish
ReadDeflate ==
    /\ pc = "read"
    /\ compression = "Deflate"
    /\ \/ /\ Return("IoError")
          /\ UNCHANGED <<crc, uncompressed_size, pos, enc_in>>
       \/ /\ pos = Len(Source.data)
          /\ pc' = "finish"
          /\ UNCHANGED <<result, crc, uncompressed_size, pos, enc_in>>
       \/ \E bytes_read \in ReadSizes(Len(Source.data) - pos) :
            LET chunk == SubSeq(Source.data, pos + 1, pos + bytes_read)
                usum == Add64(uncompressed_size, U64Of(bytes_read))
            IN  /\ pos' = pos + bytes_read
                /\ crc' = crc32(chunk, crc)
                /\ enc_in' = enc_in + bytes_read
                /\ IF Passes(usum)
                   THEN uncompressed_size' = usum.v /\ UNCHANGED <<pc, result>>
                   ELSE Return("Panic") /\ UNCHANGED uncompressed_size
    /\ UNCHANGED <<pipe_vars, files, compression, overflow_checks, idx, out, current_offset,
                   central_directory_entries, local_header_offset,
                   compressed_size, cd_idx, central_dir_offset>>

\* zip.rs:398: encoder.finish() flushes the compressed stream, then the
\* compressed size is taken from the writer's length
FinishDeflate ==
    /\ pc = "finish"
    /\ \E c \in DeflateLens(enc_in) :
         LET payload == [k \in 1..c |-> 0]
             done == WriteAll(out, "data", idx, payload)
             d1 == Sub64(U64Of(Written(done)), current_offset)
             d2 == Sub64(d1.v, U64Of(30))
             d3 == Sub64(d2.v, U64Of(Len(Name)))
         IN  \/ /\ out' \in WriteTorn(out, idx, payload)
                /\ WriteFailed
                /\ UNCHANGED compressed_size
             \/ /\ out' = done
                /\ IF Passes(d1) /\ Passes(d2) /\ Passes(d3)
                   THEN compressed_size' = d3.v /\ pc' = "descriptor" /\ UNCHANGED result
                   ELSE Return("Panic") /\ UNCHANGED compressed_size
    /\ UNCHANGED <<pipe_vars, files, compression, overflow_checks, idx, current_offset,
                   central_directory_entries, local_header_offset, crc,
                   uncompressed_size, pos, enc_in, cd_idx, central_dir_offset>>

\* zip.rs:402-408
WriteDataDescriptor ==
    /\ pc = "descriptor"
    /\ LET sum == Add64(current_offset, compressed_size)
           bytes == write_data_descriptor(Not32(crc), compressed_size, uncompressed_size)
           after == Add64(sum.v, U64Of(20))
       IN  IF ~Passes(sum)
           THEN Return("Panic") /\ UNCHANGED <<out, current_offset, crc>>
           ELSE /\ crc' = Not32(crc)
                /\ \/ /\ out' \in WriteTorn(out, idx, bytes)
                      /\ WriteFailed
                      /\ current_offset' = sum.v
                   \/ /\ out' = WriteAll(out, "desc", idx, bytes)
                      /\ IF Passes(after)
                         THEN current_offset' = after.v /\ pc' = "push" /\ UNCHANGED result
                         ELSE Return("Panic") /\ current_offset' = sum.v
    /\ UNCHANGED <<pipe_vars, files, compression, overflow_checks, idx,
                   central_directory_entries, local_header_offset,
                   uncompressed_size, compressed_size, pos, enc_in, cd_idx,
                   central_dir_offset>>

\* PushEntry that puts the record at the front of the list
PushEntry_Front ==
    /\ pc = "push"
    /\ central_directory_entries' =
         <<CentralDirectoryEntry(Name, compressed_size, uncompressed_size, crc,
                                 local_header_offset,
                                 CompressionMethod(compression),
                                 dos_datetime[1], dos_datetime[2])>>
         \o central_directory_entries
    /\ idx' = idx + 1
    /\ pc' = "loop"
    /\ UNCHANGED <<pipe_vars, files, compression, overflow_checks, out, current_offset,
                   local_header_offset, crc, uncompressed_size, compressed_size,
                   pos, enc_in, cd_idx, central_dir_offset, result>>

\* zip.rs:411-421, and the step of the for loop
PushEntry ==
    /\ pc = "push"
    /\ central_directory_entries' =
         Append(central_directory_entries,
                CentralDirectoryEntry(Name, compressed_size, uncompressed_size, crc,
                                      local_header_offset,
                                      CompressionMethod(compression),
                                      dos_datetime[1], dos_datetime[2]))
    /\ idx' = idx + 1
    /\ pc' = "loop"
    /\ UNCHANGED <<pipe_vars, files, compression, overflow_checks, out, current_offset,
                   local_header_offset, crc, uncompressed_size, compressed_size,
                   pos, enc_in, cd_idx, central_dir_offset, result>>

\* zip.rs:423
BeginCentralDirectory ==
    /\ pc = "loop"
    /\ idx > Len(files)
    /\ central_dir_offset' = current_offset
    /\ cd_idx' = 1
    /\ pc' = "cd"
    /\ UNCHANGED <<pipe_vars, files, compression, overflow_checks, idx, out, current_offset,
                   central_directory_entries, local_header_offset, crc,
                   uncompressed_size, compressed_size, pos, enc_in, result>>

\* zip.rs:426-434: one iteration of the directory loop
WriteCentralDirectory ==
    /\ pc = "cd"
    /\ cd_idx <= Len(central_directory_entries)
    /\ LET entry == central_directory_entries[cd_idx]
           bytes == write_central_directory_header(entry)
           sum == Add64(current_offset, U64Of(46 + Len(entry.file_name)))
           ext == Add64(sum.v, U64Of(20))
       IN  \/ /\ out' \in WriteTorn(out, cd_idx, bytes)
              /\ WriteFailed
              /\ UNCHANGED <<current_offset, cd_idx>>
           \/ /\ out' = WriteAll(out, "cd", cd_idx, bytes)
              /\ IF ~Passes(sum)
                 THEN Return("Panic") /\ UNCHANGED <<current_offset, cd_idx>>
                 ELSE IF ~needs_zip64(entry)
                 THEN current_offset' = sum.v /\ cd_idx' = cd_idx + 1 /\ UNCHANGED <<pc, result>>
                 ELSE IF ~Passes(ext)
                 THEN Return("Panic") /\ current_offset' = sum.v /\ UNCHANGED cd_idx
                 ELSE current_offset' = ext.v /\ cd_idx' = cd_idx + 1 /\ UNCHANGED <<pc, result>>
    /\ UNCHANGED <<pipe_vars, files, compression, overflow_checks, idx,
                   central_directory_entries, local_header_offset, crc,
                   uncompressed_size, compressed_size, pos, enc_in,
                   central_dir_offset>>

\* zip.rs:436-446
WriteEndOfCentralDirectory ==
    /\ pc = "cd"
    /\ cd_idx > Len(central_directory_entries)
    /\ LET central_dir_size == Sub64(current_offset, central_dir_offset)
           bytes == write_end_of_central_directory(
                        AsU16(Len(central_directory_entries)),
                        central_dir_size.v, central_dir_offset)
       IN  IF ~Passes(central_dir_size)
           THEN Return("Panic") /\ UNCHANGED out
           ELSE \/ /\ out' \in WriteTorn(out, 0, bytes)
                   /\ WriteFailed
                \/ /\ out' = WriteAll(out, "eocd", 0, bytes)
                   /\ Return("Ok")
    /\ UNCHANGED <<pipe_vars, files, compression, overflow_checks, idx, current_offset,
                   central_directory_entries, local_header_offset, crc,
                   uncompressed_size, compressed_size, pos, enc_in, cd_idx,
                   central_dir_offset>>

Next ==
    \/ BeginEntry
    \/ WriteLocalHeader
    \/ OpenSource
    \/ ReadStore
    \/ ReadDeflate
    \/ FinishDeflate
    \/ WriteDataDescriptor
    \/ PushEntry
    \/ BeginCentralDirectory
    \/ WriteCentralDirectory
    \/ WriteEndOfCentralDirectory

Spec == Init /\ [][Next]_vars

\* ------------------------------------------------------------------------
\* zip.rs:423-446  the directory and the terminator, for entries of sizes
\* the explicit file system cannot hold.  The run starts where the entry
\* loop ends, with the records and the offset counter the loop computes
\* (zip.rs:353-421) for entries of the given compressed and uncompressed
\* sizes; out holds only what is written from there on.
\* ------------------------------------------------------------------------

\* entry sizes around the 32-bit limit: 9, 0xFFFFFFFF, 0x100000000
LargeSizes == { U64Of(9), <<\HFFFF, \HFFFF, 0, 0>>, <<0, 0, 1, 0>> }

\* <<compressed, uncompressed>> sizes of an entry; Store keeps them equal
SizePairs(c) ==
    { p \in LargeSizes \X LargeSizes : c = "Store" => p[1] = p[2] }

\* stored name of the entries of these runs
DirName == <<108>>

\* the offset counter after an entry that started at offset (zip.rs:357,
\* 402, 408)
OffsetAfterEntry(offset, csize) ==
    Add64(Add64(Add64(offset, U64Of(30 + Len(DirName))).v, csize).v, U64Of(20)).v

RECURSIVE RecordsFor(_, _, _, _)
\* the records the entry loop pushes for entries k.. of the given sizes
RecordsFor(sizes, c, k, offset) ==
    IF k > Len(sizes) THEN <<>>
    ELSE <<CentralDirectoryEntry(DirName, sizes[k][1], sizes[k][2], <<0, 0>>,
                                 offset, CompressionMethod(c),
                                 dos_datetime[1], dos_datetime[2])>>
         \o RecordsFor(sizes, c, k + 1, OffsetAfterEntry(offset, sizes[k][1]))

RECURSIVE OffsetFor(_, _, _)
\* the offset counter after the entry loop
OffsetFor(sizes, k, offset) ==
    IF k > Len(sizes) THEN offset
    ELSE OffsetFor(sizes, k + 1, OffsetAfterEntry(offset, sizes[k][1]))

InitDir ==
    /\ PipeIdle
    /\ compression \in {"Store", "Deflate"}
    /\ overflow_checks \in BOOLEAN
    /\ \E n \in 1..MaxFiles :
         \E sizes \in [1..n -> SizePairs(compression)] :
            /\ files = [k \in 1..n |-> FileEntry("long", DirName)]
            /\ idx = n + 1
            /\ central_directory_entries = RecordsFor(sizes, compression, 1, Zero64)
            /\ current_offset = OffsetFor(sizes, 1, Zero64)
    /\ pc = "loop"
    /\ out = <<>>
    /\ local_header_offset = Zero64
    /\ crc = <<0, 0>>
    /\ uncompressed_size = Zero64
    /\ compressed_size = Zero64
    /\ pos = 0
    /\ enc_in = 0
    /\ cd_idx = 1
    /\ central_dir_offset = Zero64
    /\ result = "none"

NextDir ==
    \/ BeginCentralDirectory
    \/ WriteCentralDirectory
    \/ WriteEndOfCentralDirectory

SpecDir == InitDir /\ [][NextDir]_vars

\* ------------------------------------------------------------------------
\* zip.rs:436-446  the terminator of an archive of many entries.  The run
\* starts where the directory loop ends, with the records and counters the
\* two loops compute for n stored sources without content, the first of
\* which may instead be a source of 4 GiB; out holds only what is written
\* from there on.
\* ------------------------------------------------------------------------

\* the largest value of the terminator's entry count field (u16)
U16Max == 65535

\* entry counts looked at on either side of U16Max
CountSpread == 3

EntryCounts == (0..CountSpread) \cup ((U16Max - CountSpread)..(U16Max + CountSpread))

\* uncompressed = compressed size of the first source
FirstSizes == { Zero64, <<0, 0, 1, 0>> }

\* the record of entry k of such a run (zip.rs:353, 357, 402, 408, 411-421)
ManyRecord(k, first) ==
    CentralDirectoryEntry(DirName,
        IF k = 1 THEN first ELSE Zero64,
        IF k = 1 THEN first ELSE Zero64,
        IF k = 1 /\ first # Zero64 THEN <<1, 1>> ELSE <<0, 0>>,
        IF k = 1 THEN Zero64
        ELSE Add64(U64Of((30 + Len(DirName) + 20) * (k - 1)), first).v,
        CompressionMethod("Store"), dos_datetime[1], dos_datetime[2])

\* the offset counter after the entry loop of such a run
ManyDirOffset(n, first) ==
    IF n = 0 THEN Zero64
    ELSE Add64(U64Of((30 + Len(DirName) + 20) * n), first).v

\* the offset counter after the directory loop (zip.rs:428-433)
ManyEndOffset(n, first) ==
    Add64(ManyDirOffset(n, first),
          U64Of(IF first = Zero64 THEN (46 + Len(DirName)) * n
                ELSE (46 + Len(DirName) + 20) * n)).v

InitEnd ==
    /\ PipeIdle
    /\ compression = "Store"
    /\ overflow_checks \in BOOLEAN
    /\ \E n \in EntryCounts, first \in FirstSizes :
            /\ files = [k \in 1..n |-> FileEntry("empty", DirName)]
            /\ idx = n + 1
            /\ central_directory_entries = [k \in 1..n |-> ManyRecord(k, first)]
            /\ cd_idx = n + 1
            /\ central_dir_offset = ManyDirOffset(n, first)
            /\ current_offset = ManyEndOffset(n, first)
    /\ pc = "cd"
    /\ out = <<>>
    /\ local_header_offset = Zero64
    /\ crc = <<0, 0>>
    /\ uncompressed_size = Zero64
    /\ compressed_size = Zero64
    /\ pos = 0
    /\ enc_in = 0
    /\ result = "none"

NextEnd == WriteEndOfCentralDirectory

SpecEnd == InitEnd /\ [][NextEnd]_vars

\* ------------------------------------------------------------------------
\* The run around the encoder.  The producing side is package_zip_streaming
\* writing into the conduit: its steps are those of zip.rs:320-447 with the
\* content of the bytes left out (a chunk is the kind, entry and length of
\* one write), so that sources larger than the buffers can be run.  The
\* arithmetic of the offsets is that of a build without overflow checks.
\* ------------------------------------------------------------------------

\* longest entry list of a run
MaxPipeFiles == 2

\* chunks the conduit holds (a bounded conduit of about 4 chunks)
ChanCapacity == 4

\* sink/mod.rs:58
DuplexCapacity == 8192

\* the sources of a run: path |-> exists, is_file, size
PipeSources ==
    [p \in {"missing", "dir", "empty", "big"} |->
        CASE p = "missing" -> [exists |-> FALSE, is_file |-> FALSE, size |-> 0]
          [] p = "dir"     -> [exists |-> TRUE,  is_file |-> FALSE, size |-> 0]
          [] p = "empty"   -> [exists |-> TRUE,  is_file |-> TRUE,  size |-> 0]
          [] p = "big"     -> [exists |-> TRUE,  is_file |-> TRUE,
                               size |-> DuplexCapacity + 9]]

PipeLists ==
    UNION { [1..n -> { FileEntry(p, DirName) : p \in DOMAIN PipeSources }] :
            n \in 0..MaxPipeFiles }

\* sizes a read may return when rem bytes are left: all that fits the
\* buffer, or a short read at the start of the file
PipeReadSizes(at, rem) ==
    LET full == IF rem < BUFFER_SIZE THEN rem ELSE BUFFER_SIZE
    IN  { full } \cup (IF at = 0 /\ rem > MaxShortRead THEN { MaxShortRead } ELSE {})

\* a chunk: one write of the encoder, numbered in emission order
Chunk(kind, e, len) == [id |-> Len(sent) + 1, kind |-> kind, entry |-> e, len |-> len]

\* the terminal value an error of the producing side travels as
ErrItem(e) == [id |-> 0, kind |-> e, entry |-> 0, len |-> 0]

PipeSource == PipeSources[files[idx].source_path]

\* variables of the encoder the chunk-level steps do not use
enc_rest == <<files, compression, overflow_checks, out, current_offset,
              central_directory_entries, local_header_offset, crc,
              uncompressed_size, compressed_size, central_dir_offset>>

\* variables of the consuming side and of the destinations
cons_vars == <<main_vars, dry, route, o_pc, final, printed, rx_open, held, stream_result,
               disk, duplex, writer_open, reader_open, body, up_pc, up_result,
               requests>>

\* the producing side runs from the start of the streaming call until it
\* gives up its end of the conduit
Producing == tx_open

\* writer.write_all(chunk) into the conduit: completes once there is room
PipeSend(c) ==
    /\ rx_open
    /\ Len(chan) < ChanCapacity
    /\ chan' = Append(chan, c)
    /\ sent' = Append(sent, c)

\* a send after the receiver is gone that is taken for a success
PipeSendClosed_Ignored(next) ==
    /\ ~rx_open
    /\ pc' = next
    /\ UNCHANGED <<chan, sent, result, tx_open>>

\* the send fails because the consumer dropped its end: the `?` after the
\* write returns, the producer is done and its end closes
PipeSendClosed(next) ==
    /\ ~rx_open
    /\ result' = "ChannelClosed"
    /\ pc' = "done"
    /\ tx_open' = FALSE
    /\ UNCHANGED <<chan, sent>>

\* the encoder returned Err(e): the error is to be sent as the last value
PipeFail(e) ==
    /\ result' = e
    /\ pc' = "fail"
    /\ UNCHANGED <<chan, sent, tx_open>>

\* zip.rs:329-353
PipeBeginEntry ==
    /\ Producing
    /\ pc = "loop"
    /\ idx <= Len(files)
    /\ IF ~PipeSource.exists THEN PipeFail("NotFound")
       ELSE IF ~PipeSource.is_file THEN PipeFail("InvalidInput")
       ELSE \/ PipeFail("IoError")
            \/ pc' = "header" /\ UNCHANGED <<result, chan, sent, tx_open>>
    /\ UNCHANGED <<idx, pos, enc_in, cd_idx>>
    /\ UNCHANGED <<enc_rest, cons_vars>>

\* zip.rs:356-357
PipeWriteLocalHeader ==
    /\ Producing
    /\ pc = "header"
    /\ \/ /\ PipeSend(Chunk("local", idx, 30 + Len(files[idx].archive_path)))
          /\ pc' = "open"
          /\ UNCHANGED <<result, tx_open>>
       \/ PipeSendClosed("open")
    /\ UNCHANGED <<idx, pos, enc_in, cd_idx>>
    /\ UNCHANGED <<enc_rest, cons_vars>>

\* zip.rs:360-365
PipeOpenSource ==
    /\ Producing
    /\ pc = "open"
    /\ \/ PipeFail("IoError") /\ UNCHANGED <<pos, enc_in>>
       \/ /\ pc' = "read"
          /\ pos' = 0
          /\ enc_in' = 0
          /\ UNCHANGED <<result, chan, sent, tx_open>>
    /\ UNCHANGED <<idx, cd_idx>>
    /\ UNCHANGED <<enc_rest, cons_vars>>

\* zip.rs:368-380: one iteration of the Store loop
PipeReadStore ==
    /\ Producing
    /\ pc = "read"
    /\ compression = "Store"
    /\ \/ PipeFail("IoError") /\ UNCHANGED pos
       \/ /\ pos = PipeSource.size
          /\ pc' = "descriptor"
          /\ UNCHANGED <<pos, result, chan, sent, tx_open>>
       \/ /\ pos < PipeSource.size
          /\ \E n \in PipeReadSizes(pos, PipeSource.size - pos) :
                \/ /\ PipeSend(Chunk("data", idx, n))
                   /\ pos' = pos + n
                   /\ UNCHANGED <<pc, result, tx_open>>
                \/ PipeSendClosed("read") /\ UNCHANGED pos
    /\ UNCHANGED <<idx, enc_in, cd_idx>>
    /\ UNCHANGED <<enc_rest, cons_vars>>

\* zip.rs:381-396: one iteration of the Deflate loop; the encoder keeps
\* what it is given
PipeReadDeflate ==
    /\ Producing
    /\ pc = "read"
    /\ compression = "Deflate"
    /\ \/ PipeFail("IoError") /\ UNCHANGED <<pos, enc_in>>
       \/ /\ pos = PipeSource.size
          /\ pc' = "finish"
          /\ UNCHANGED <<pos, enc_in, result, chan, sent, tx_open>>
       \/ /\ pos < PipeSource.size
          /\ \E n \in PipeReadSizes(pos, PipeSource.size - pos) :
                /\ pos' = pos + n
                /\ enc_in' = enc_in + n
          /\ UNCHANGED <<pc, result, chan, sent, tx_open>>
    /\ UNCHANGED <<idx, cd_idx>>
    /\ UNCHANGED <<enc_rest, cons_vars>>

\* zip.rs:398: encoder.finish() writes the compressed stream
PipeFinishDeflate ==
    /\ Producing
    /\ pc = "finish"
    /\ \/ /\ \E len \in DeflateLens(enc_in) : PipeSend(Chunk("data", idx, len))
          /\ pc' = "descriptor"
          /\ UNCHANGED <<result, tx_open>>
       \/ PipeSendClosed("descriptor")
    /\ UNCHANGED <<idx, pos, enc_in, cd_idx>>
    /\ UNCHANGED <<enc_rest, cons_vars>>

\* zip.rs:402-421: the descriptor, and the entry is done
PipeWriteDataDescriptor ==
    /\ Producing
    /\ pc = "descriptor"
    /\ \/ /\ PipeSend(Chunk("desc", idx, 24))
          /\ pc' = "loop"
          /\ idx' = idx + 1
          /\ UNCHANGED <<result, tx_open>>
       \/ PipeSendClosed("loop") /\ UNCHANGED idx
    /\ UNCHANGED <<pos, enc_in, cd_idx>>
    /\ UNCHANGED <<enc_rest, cons_vars>>

\* zip.rs:423
PipeBeginCentralDirectory ==
    /\ Producing
    /\ pc = "loop"
    /\ idx > Len(files)
    /\ pc' = "cd"
    /\ cd_idx' = 1
    /\ UNCHANGED <<idx, pos, enc_in, result, chan, sent, tx_open>>
    /\ UNCHANGED <<enc_rest, cons_vars>>

\* zip.rs:426-434
PipeWriteCentralDirectory ==
    /\ Producing
    /\ pc = "cd"
    /\ cd_idx <= Len(files)
    /\ \/ /\ PipeSend(Chunk("cd", cd_idx, 46 + Len(files[cd_idx].archive_path)))
          /\ cd_idx' = cd_idx + 1
          /\ UNCHANGED <<pc, result, tx_open>>
       \/ PipeSendClosed("cd") /\ UNCHANGED cd_idx
    /\ UNCHANGED <<idx, pos, enc_in>>
    /\ UNCHANGED <<enc_rest, cons_vars>>

\* zip.rs:436-446: the terminator; the encoder returns Ok and the
\* producer's end of the conduit closes
PipeWriteEndOfCentralDirectory ==
    /\ Producing
    /\ pc = "cd"
    /\ cd_idx > Len(files)
    /\ \/ /\ PipeSend(Chunk("eocd", 0, 22))
          /\ result' = "Ok"
          /\ pc' = "done"
          /\ tx_open' = FALSE
       \/ PipeSendClosed("done")
    /\ UNCHANGED <<idx, pos, enc_in, cd_idx>>
    /\ UNCHANGED <<enc_rest, cons_vars>>

\* an error of the encoder is sent as the last value of the conduit, then
\* the producer's end closes
PipeSendErr ==
    /\ Producing
    /\ pc = "fail"
    /\ \/ /\ rx_open
          /\ Len(chan) < ChanCapacity
          /\ chan' = Append(chan, ErrItem(result))
       \/ /\ ~rx_open
          /\ UNCHANGED chan
    /\ pc' = "done"
    /\ tx_open' = FALSE
    /\ UNCHANGED <<idx, pos, enc_in, cd_idx, result, sent>>
    /\ UNCHANGED <<enc_rest, cons_vars>>

\* ------------------------------------------------------------------------
\* The consuming side of stream_zip_to_writer: it takes the chunks off the
\* conduit and writes them to the writer it was given, a file
\* (sink/mod.rs:53-54) or the write half of the duplex (sink/mod.rs:58, 81)
\* ------------------------------------------------------------------------

\* n more bytes of chunk id at the end of a byte stream kept as runs
AddRun(runs, id, n) ==
    IF n = 0 THEN runs
    ELSE IF runs # <<>> /\ runs[Len(runs)].id = id
         THEN [runs EXCEPT ![Len(runs)].n = @ + n]
         ELSE Append(runs, [id |-> id, n |-> n])

RECURSIVE RunBytes(_)
\* number of bytes of a stream kept as runs
RunBytes(runs) ==
    IF runs = <<>> THEN 0 ELSE runs[1].n + RunBytes(Tail(runs))

RECURSIVE JoinRuns(_, _)
\* the stream a followed by the stream b
JoinRuns(a, b) ==
    IF b = <<>> THEN a ELSE JoinRuns(AddRun(a, b[1].id, b[1].n), Tail(b))

\* a duplex that takes whatever it is given
DuplexWrite_Unbounded(runs, n) == n

\* sink/mod.rs:58: a write of n bytes into the duplex takes as many as
\* there is room for; with no room it waits
DuplexWrite(runs, n) ==
    LET room == DuplexCapacity - RunBytes(runs)
    IN  IF n < room THEN n ELSE room

Consuming ==
    /\ o_pc = "streaming"
    /\ route \in {"SaveToFile", "UploadToUrl"}
    /\ stream_result = "none"

\* stream_zip_to_writer returns r: its receiver and its writer are dropped
ConsumerStop(r) ==
    /\ stream_result' = r
    /\ rx_open' = FALSE
    /\ chan' = <<>>
    /\ held' = NoChunk
    /\ writer_open' = FALSE

\* variables the consuming side leaves alone
cons_rest == <<main_vars, dry, route, o_pc, final, printed, sent, tx_open, reader_open,
               body, up_pc, up_result, requests>>

\* the next value of the conduit: a chunk to write, or the producer's error
ConsumerRecv ==
    /\ Consuming
    /\ held = NoChunk
    /\ chan # <<>>
    /\ IF Head(chan).id = 0
       THEN ConsumerStop(Head(chan).kind)
       ELSE /\ held' = [id |-> Head(chan).id, left |-> Head(chan).len]
            /\ chan' = Tail(chan)
            /\ UNCHANGED <<stream_result, rx_open, writer_open>>
    /\ UNCHANGED <<disk, duplex>>
    /\ UNCHANGED <<enc_vars, cons_rest>>

\* the chunk is written to the file, or the file rejects the write
ConsumerWriteFile ==
    /\ Consuming
    /\ route = "SaveToFile"
    /\ held # NoChunk
    /\ \/ /\ disk' = [disk EXCEPT !.file = AddRun(@, held.id, held.left)]
          /\ held' = NoChunk
          /\ UNCHANGED <<stream_result, rx_open, chan, writer_open>>
       \/ /\ ConsumerStop("SinkWriteError")
          /\ UNCHANGED disk
    /\ UNCHANGED duplex
    /\ UNCHANGED <<enc_vars, cons_rest>>

\* the chunk is written to the duplex: as much as there is room for; the
\* write fails once the read half is gone
ConsumerWriteDuplex ==
    /\ Consuming
    /\ route = "UploadToUrl"
    /\ held # NoChunk
    /\ IF ~reader_open
       THEN ConsumerStop("SinkWriteError") /\ UNCHANGED duplex
       ELSE LET k == DuplexWrite(duplex, held.left)
            IN  /\ k > 0
                /\ duplex' = AddRun(duplex, held.id, k)
                /\ held' = IF k = held.left THEN NoChunk
                           ELSE [held EXCEPT !.left = @ - k]
                /\ UNCHANGED <<stream_result, rx_open, chan, writer_open>>
    /\ UNCHANGED disk
    /\ UNCHANGED <<enc_vars, cons_rest>>

\* the conduit is closed and drained: flush, close, return
ConsumerEnd ==
    /\ Consuming
    /\ held = NoChunk
    /\ chan = <<>>
    /\ ~tx_open
    /\ \/ ConsumerStop("Ok")
       \/ route = "SaveToFile" /\ ConsumerStop("SinkWriteError")
    /\ UNCHANGED <<disk, duplex>>
    /\ UNCHANGED <<enc_vars, cons_rest>>

\* ------------------------------------------------------------------------
\* process.rs:61-99 process_files, sink/mod.rs:42-92 stream_zip_to_sink,
\* sink/save_file.rs:23-37 create_file_writer
\* ------------------------------------------------------------------------

\* response statuses a server may answer with
Statuses == {200, 308, 500}

\* StatusCode::is_success
is_success(status) == 200 <= status /\ status <= 299

\* Response::error_for_status reports client and server errors
is_error_status(status) == 400 <= status /\ status <= 599

\* a target file left by an earlier run
OldDisk == [dirs |-> TRUE, exists |-> TRUE, file |-> <<[id |-> -1, n |-> 5]>>]

\* variables an orchestrating step leaves alone
orch_rest == <<main_vars, dry, route, sent, chan, held, stream_result, duplex, body,
               requests>>

\* process_files that does not look at the dry-run flag
process_files_NoDryCheck ==
    /\ o_pc = "process"
    /\ o_pc' = "sink"
    /\ UNCHANGED <<final, printed>>
    /\ UNCHANGED <<tx_open, rx_open, disk, writer_open, reader_open, up_pc, up_result>>
    /\ UNCHANGED <<enc_vars, orch_rest>>

\* process.rs:61-93: a dry run prints the plan and returns Ok
process_files ==
    /\ o_pc = "process"
    /\ IF dry = "true"
       THEN /\ printed' = TRUE
            /\ final' = "Ok"
            /\ o_pc' = "done"
       ELSE /\ o_pc' = "sink"
            /\ UNCHANGED <<final, printed>>
    /\ UNCHANGED <<tx_open, rx_open, disk, writer_open, reader_open, up_pc, up_result>>
    /\ UNCHANGED <<enc_vars, orch_rest>>

\* the conduit and the two sides of stream_zip_to_writer start
StartStreaming ==
    /\ o_pc' = "streaming"
    /\ tx_open' = TRUE
    /\ rx_open' = TRUE
    /\ writer_open' = TRUE

\* create_file_writer that creates the file before its parent directories
create_file_writer_NoDirs ==
    \/ /\ final' = "CreateError"
       /\ o_pc' = "done"
       /\ UNCHANGED <<disk, tx_open, rx_open, writer_open>>
    \/ /\ disk' = [dirs |-> disk.dirs, exists |-> TRUE, file |-> <<>>]
       /\ StartStreaming
       /\ UNCHANGED final

\* save_file.rs:23-37: create_dir_all(parent), then File::create(path)
create_file_writer ==
    \/ /\ final' = "CreateError"
       /\ o_pc' = "done"
       /\ UNCHANGED <<disk, tx_open, rx_open, writer_open>>
    \/ /\ disk' = [disk EXCEPT !.dirs = TRUE]
       /\ final' = "CreateError"
       /\ o_pc' = "done"
       /\ UNCHANGED <<tx_open, rx_open, writer_open>>
    \/ /\ disk' = [dirs |-> TRUE, exists |-> TRUE, file |-> <<>>]
       /\ StartStreaming
       /\ UNCHANGED final

\* sink/mod.rs:51-53: SaveToFile opens the file, then streams
OpenFileSink ==
    /\ o_pc = "sink"
    /\ route = "SaveToFile"
    /\ create_file_writer
    /\ UNCHANGED <<printed, reader_open, up_pc, up_result>>
    /\ UNCHANGED <<enc_vars, orch_rest>>

\* sink/mod.rs:56-81: UploadToUrl makes the duplex, spawns the upload task,
\* then streams into the write half
OpenUploadSink ==
    /\ o_pc = "sink"
    /\ route = "UploadToUrl"
    /\ reader_open' = TRUE
    /\ up_pc' = "spawned"
    /\ StartStreaming
    /\ UNCHANGED <<final, printed, disk, up_result>>
    /\ UNCHANGED <<enc_vars, orch_rest>>

\* sink/mod.rs:54, 81, 91: the `?` after stream_zip_to_writer
StreamReturned ==
    /\ o_pc = "streaming"
    /\ route \in {"SaveToFile", "UploadToUrl"}
    /\ stream_result # "none"
    /\ IF stream_result # "Ok"
       THEN final' = stream_result /\ o_pc' = "done"
       ELSE IF route = "SaveToFile"
       THEN final' = "Ok" /\ o_pc' = "done"
       ELSE o_pc' = "joining" /\ UNCHANGED final
    /\ UNCHANGED <<printed, tx_open, rx_open, disk, writer_open, reader_open, up_pc, up_result>>
    /\ UNCHANGED <<enc_vars, orch_rest>>

\* sink/mod.rs:84-91: wait for the upload task and return its result
JoinUpload ==
    /\ o_pc = "joining"
    /\ up_pc = "done"
    /\ final' = up_result
    /\ o_pc' = "done"
    /\ UNCHANGED <<printed, tx_open, rx_open, disk, writer_open, reader_open, up_pc, up_result>>
    /\ UNCHANGED <<enc_vars, orch_rest>>

\* ------------------------------------------------------------------------
\* sink/mod.rs:63-78  the upload task
\* ------------------------------------------------------------------------

\* variables the upload leaves alone
up_rest == <<main_vars, dry, route, o_pc, final, printed, sent, tx_open, held,
             stream_result, disk, writer_open>>

\* the upload has a result: the request, its body and the read half are gone
UploadDone(r, status) ==
    /\ up_result' = r
    /\ up_pc' = "done"
    /\ requests' = [requests EXCEPT ![Len(requests)].status = status]

\* sink/mod.rs:64-70: one POST with the content type of a zip archive
UploadPost ==
    /\ route = "UploadToUrl"
    /\ up_pc = "spawned"
    /\ requests' = Append(requests, [method |-> "POST",
                                     content_type |-> "application/zip",
                                     status |-> 0])
    /\ up_pc' = "sending"
    /\ UNCHANGED <<chan, rx_open, duplex, reader_open, body, up_result>>
    /\ UNCHANGED <<enc_vars, up_rest>>

\* sink/mod.rs:67-69: the body takes what the duplex holds
\* the end of the body when the caller keeps the write half until it returns
UploadBodyEnd_WriterKept ==
    /\ route = "UploadToUrl"
    /\ up_pc = "sending"
    /\ duplex = <<>>
    /\ ~writer_open
    /\ o_pc = "done"
    /\ up_pc' = "awaiting"
    /\ UNCHANGED <<chan, rx_open, duplex, reader_open, body, up_result, requests>>
    /\ UNCHANGED <<enc_vars, up_rest>>

\* a body stream that drops what it read from the duplex
UploadReadBody_Lossy ==
    /\ route = "UploadToUrl"
    /\ up_pc = "sending"
    /\ duplex # <<>>
    /\ body' = body
    /\ duplex' = <<>>
    /\ UNCHANGED <<chan, rx_open, reader_open, up_pc, up_result, requests>>
    /\ UNCHANGED <<enc_vars, up_rest>>

\* sink/mod.rs:67-69: the body stream takes what the duplex holds
UploadReadBody ==
    /\ route = "UploadToUrl"
    /\ up_pc = "sending"
    /\ duplex # <<>>
    /\ body' = JoinRuns(body, duplex)
    /\ duplex' = <<>>
    /\ UNCHANGED <<chan, rx_open, reader_open, up_pc, up_result, requests>>
    /\ UNCHANGED <<enc_vars, up_rest>>

\* the write half is gone and the duplex is drained: end of the body
UploadBodyEnd ==
    /\ route = "UploadToUrl"
    /\ up_pc = "sending"
    /\ duplex = <<>>
    /\ ~writer_open
    /\ up_pc' = "awaiting"
    /\ UNCHANGED <<chan, rx_open, duplex, reader_open, body, up_result, requests>>
    /\ UNCHANGED <<enc_vars, up_rest>>

\* sink/mod.rs:71-77: the response; a server that refuses or redirects may
\* answer before the body has ended, one that accepts answers after it
UploadResponse ==
    /\ route = "UploadToUrl"
    /\ up_pc \in {"sending", "awaiting"}
    /\ \E status \in Statuses :
          /\ is_success(status) => up_pc = "awaiting"
          /\ UploadDone(IF is_success(status) THEN "Ok" ELSE "UploadFailed", status)
    /\ reader_open' = FALSE
    /\ duplex' = <<>>
    /\ UNCHANGED <<chan, rx_open, body>>
    /\ UNCHANGED <<enc_vars, up_rest>>

\* sink/mod.rs:71: send() fails (connection, DNS, timeout)
UploadTransportError ==
    /\ route = "UploadToUrl"
    /\ up_pc \in {"sending", "awaiting"}
    /\ UploadDone("TransportError", 0)
    /\ reader_open' = FALSE
    /\ duplex' = <<>>
    /\ UNCHANGED <<chan, rx_open, body>>
    /\ UNCHANGED <<enc_vars, up_rest>>

\* process.rs:54-58: the runtime is dropped when process_files has returned;
\* an upload task still running is cancelled
RuntimeShutdown ==
    /\ route = "UploadToUrl"
    /\ o_pc = "done"
    /\ up_pc \in {"spawned", "sending", "awaiting"}
    /\ up_pc' = "cancelled"
    /\ reader_open' = FALSE
    /\ duplex' = <<>>
    /\ UNCHANGED <<chan, rx_open, body, up_result, requests>>
    /\ UNCHANGED <<enc_vars, up_rest>>

\* ------------------------------------------------------------------------
\* packaging/mod.rs:21-54 create_zip_and_send_sync with an upload
\* destination, sink/send_net.rs:12-22 send_http_async: the request body is
\* the stream of the conduit's values
\* ------------------------------------------------------------------------

\* variables send_http_async leaves alone
http_rest == <<main_vars, dry, route, o_pc, final, printed, sent, tx_open, held,
               stream_result, disk, duplex, writer_open, reader_open>>

\* packaging/mod.rs:36-50: the stream is made and handed to send_http_async
SyncStart ==
    /\ o_pc = "sync"
    /\ route = "SendHttp"
    /\ o_pc' = "streaming"
    /\ tx_open' = TRUE
    /\ rx_open' = TRUE
    /\ up_pc' = "spawned"
    /\ UNCHANGED <<final, printed, disk, writer_open, reader_open, up_result>>
    /\ UNCHANGED <<enc_vars, orch_rest>>

\* send_net.rs:16-18: one POST; no header is set
SendHttpPost ==
    /\ route = "SendHttp"
    /\ up_pc = "spawned"
    /\ requests' = Append(requests, [method |-> "POST",
                                     content_type |-> "none",
                                     status |-> 0])
    /\ up_pc' = "sending"
    /\ UNCHANGED <<chan, rx_open, body, up_result>>
    /\ UNCHANGED <<enc_vars, http_rest>>

\* send_net.rs:16-18: the body takes the next value of the stream; an Err
\* value fails the request
SendHttpReadBody ==
    /\ route = "SendHttp"
    /\ up_pc = "sending"
    /\ chan # <<>>
    /\ IF Head(chan).id = 0
       THEN /\ UploadDone("TransportError", 0)
            /\ rx_open' = FALSE
            /\ chan' = <<>>
            /\ UNCHANGED body
       ELSE /\ body' = AddRun(body, Head(chan).id, Head(chan).len)
            /\ chan' = Tail(chan)
            /\ UNCHANGED <<rx_open, up_pc, up_result, requests>>
    /\ UNCHANGED <<enc_vars, http_rest>>

\* the stream has ended: end of the body
SendHttpBodyEnd ==
    /\ route = "SendHttp"
    /\ up_pc = "sending"
    /\ chan = <<>>
    /\ ~tx_open
    /\ up_pc' = "awaiting"
    /\ UNCHANGED <<chan, rx_open, body, up_result, requests>>
    /\ UNCHANGED <<enc_vars, http_rest>>

\* send_net.rs:18-21: the response; error_for_status fails on 4xx and 5xx
SendHttpResponse ==
    /\ route = "SendHttp"
    /\ up_pc \in {"sending", "awaiting"}
    /\ \E status \in Statuses :
          /\ is_success(status) => up_pc = "awaiting"
          /\ UploadDone(IF is_error_status(status) THEN "UploadFailed" ELSE "Ok", status)
    /\ rx_open' = FALSE
    /\ chan' = <<>>
    /\ UNCHANGED body
    /\ UNCHANGED <<enc_vars, http_rest>>

\* send_net.rs:18: send() fails
SendHttpTransportError ==
    /\ route = "SendHttp"
    /\ up_pc \in {"sending", "awaiting"}
    /\ UploadDone("TransportError", 0)
    /\ rx_open' = FALSE
    /\ chan' = <<>>
    /\ UNCHANGED body
    /\ UNCHANGED <<enc_vars, http_rest>>

\* packaging/mod.rs:36-53: block_on returns the result of send_http_async
SyncReturn ==
    /\ o_pc = "streaming"
    /\ route = "SendHttp"
    /\ up_pc = "done"
    /\ final' = up_result
    /\ o_pc' = "done"
    /\ UNCHANGED <<printed, tx_open, rx_open, disk, writer_open, reader_open, up_pc, up_result>>
    /\ UNCHANGED <<enc_vars, orch_rest>>

\* ------------------------------------------------------------------------
\* The runs
\* ------------------------------------------------------------------------

\* a run over one of the given entry lists
InitPipeOver(lists) ==
    /\ files \in lists
    /\ compression \in {"Store", "Deflate"}
    /\ overflow_checks = FALSE
    /\ pc = "loop"
    /\ idx = 1
    /\ out = <<>>
    /\ current_offset = Zero64
    /\ central_directory_entries = <<>>
    /\ local_header_offset = Zero64
    /\ crc = <<0, 0>>
    /\ uncompressed_size = Zero64
    /\ compressed_size = Zero64
    /\ pos = 0
    /\ enc_in = 0
    /\ cd_idx = 1
    /\ central_dir_offset = Zero64
    /\ result = "none"
    /\ MainIdle
    /\ route \in {"SaveToFile", "UploadToUrl", "SendHttp"}
    /\ dry \in (IF route = "SendHttp" THEN {"None"}
                 ELSE IF files = <<>> THEN {"None", "true", "false"}
                 ELSE {"true", "false"})
    /\ o_pc = (IF route = "SendHttp" THEN "sync" ELSE "process")
    /\ disk \in (IF route = "SaveToFile" THEN {NoDisk, OldDisk} ELSE {NoDisk})
    /\ final = "none"
    /\ printed = FALSE
    /\ sent = <<>>
    /\ chan = <<>>
    /\ tx_open = FALSE
    /\ rx_open = FALSE
    /\ held = NoChunk
    /\ stream_result = "none"
    /\ duplex = <<>>
    /\ writer_open = FALSE
    /\ reader_open = FALSE
    /\ body = <<>>
    /\ up_pc = "idle"
    /\ up_result = "none"
    /\ requests = <<>>

InitPipe == InitPipeOver(PipeLists)

NextPipe ==
    \/ process_files
    \/ OpenFileSink
    \/ OpenUploadSink
    \/ StreamReturned
    \/ JoinUpload
    \/ RuntimeShutdown
    \/ PipeBeginEntry
    \/ PipeWriteLocalHeader
    \/ PipeOpenSource
    \/ PipeReadStore
    \/ PipeReadDeflate
    \/ PipeFinishDeflate
    \/ PipeWriteDataDescriptor
    \/ PipeBeginCentralDirectory
    \/ PipeWriteCentralDirectory
    \/ PipeWriteEndOfCentralDirectory
    \/ PipeSendErr
    \/ ConsumerRecv
    \/ ConsumerWriteFile
    \/ ConsumerWriteDuplex
    \/ ConsumerEnd
    \/ UploadPost
    \/ UploadReadBody
    \/ UploadBodyEnd
    \/ UploadResponse
    \/ UploadTransportError
    \/ SyncStart
    \/ SendHttpPost
    \/ SendHttpReadBody
    \/ SendHttpBodyEnd
    \/ SendHttpResponse
    \/ SendHttpTransportError
    \/ SyncReturn

SpecPipe == InitPipe /\ [][NextPipe]_vars

\* the steps that are taken whenever they can be: every thread and task of
\* the run keeps being scheduled, a file write returns, and the server
\* keeps reading the body and answers the request once its body has ended.
\* An answer before the end of the body and a transport failure may happen
\* but are never owed.
FairStep ==
    \/ process_files
    \/ OpenFileSink
    \/ OpenUploadSink
    \/ StreamReturned
    \/ JoinUpload
    \/ RuntimeShutdown
    \/ PipeBeginEntry
    \/ PipeWriteLocalHeader
    \/ PipeOpenSource
    \/ PipeReadStore
    \/ PipeReadDeflate
    \/ PipeFinishDeflate
    \/ PipeWriteDataDescriptor
    \/ PipeBeginCentralDirectory
    \/ PipeWriteCentralDirectory
    \/ PipeWriteEndOfCentralDirectory
    \/ PipeSendErr
    \/ ConsumerRecv
    \/ ConsumerWriteFile
    \/ ConsumerWriteDuplex
    \/ ConsumerEnd
    \/ UploadPost
    \/ UploadReadBody
    \/ UploadBodyEnd
    \/ (up_pc = "awaiting" /\ UploadResponse)
    \/ SyncStart
    \/ SendHttpPost
    \/ SendHttpReadBody
    \/ SendHttpBodyEnd
    \/ (up_pc = "awaiting" /\ SendHttpResponse)
    \/ SyncReturn

\* entries of a run that is checked for termination
MaxLiveFiles == 1

LiveLists ==
    UNION { [1..n -> { FileEntry(p, DirName) : p \in DOMAIN PipeSources }] :
            n \in 0..MaxLiveFiles }

InitLive == InitPipeOver(LiveLists)

SpecLive == InitLive /\ [][NextPipe]_vars /\ WF_vars(FairStep)

\* ---------------------------------------------------------------------
\* The configuration phase of main: environment, file and command line are
\* merged into one Config (main.rs:82-152, 197-243).  The fields modelled
\* are output (a plain Option<String>, as config, format, authentication,
\* protocol, before and after are), dry and compress (flags), max_size
\* (an option with a default) and skip and paths (lists).

\* what the user can write on the command line: an option is given or not
\* (None), a flag is passed or not, a list option is repeated or absent
ArgsSet ==
    [output : {None, Some("cli.zip")},
     dry : BOOLEAN,
     max_size : {None, Some(9)},
     compress : BOOLEAN,
     skip : {<<>>, <<"*.tmp">>},
     paths : {<<"a">>}]

\* what read_env can return (main.rs:155-183): it never sets paths
EnvConfigs ==
    [output : {None, Some("env.zip")},
     dry : {None, Some(TRUE)},
     max_size : {None},
     compress : {None},
     skip : {None},
     paths : {None}]

\* what read_config_file can return (main.rs:186-195)
FileConfigs ==
    [output : {None, Some("file.zip")},
     dry : {None, Some(TRUE), Some(FALSE)},
     max_size : {None, Some(7)},
     compress : {None, Some(TRUE)},
     skip : {None},
     paths : {None}]

\* Cli::parse (main.rs:26-80): an Option field is the value given or None,
\* a SetTrue flag is true when passed and false otherwise, max_size has
\* default_value_t = 0, a Vec is the values given
Cli_parse(a) ==
    [output |-> a.output,
     dry |-> a.dry,
     max_size |-> IF a.max_size = None THEN 0 ELSE a.max_size[1],
     compress |-> a.compress,
     skip |-> a.skip,
     paths |-> a.paths]

\* main.rs:198-221
cli_to_config(cli) ==
    [output |-> cli.output,
     dry |-> Some(cli.dry),
     max_size |-> Some(cli.max_size),
     compress |-> Some(cli.compress),
     paths |-> IF cli.paths = <<>> THEN None ELSE Some(cli.paths),
     skip |-> IF cli.skip = <<>> THEN None ELSE Some(cli.skip)]

\* Option::or
or(a, b) == IF a # None THEN a ELSE b

\* main.rs:225-227
pick(env, file, cli) == or(or(cli, file), env)

\* main.rs:224-243
merge_configs(env, file, cli) ==
    [output |-> pick(env.output, file.output, cli.output),
     dry |-> pick(env.dry, file.dry, cli.dry),
     max_size |-> pick(env.max_size, file.max_size, cli.max_size),
     paths |-> pick(env.paths, file.paths, cli.paths),
     skip |-> pick(env.skip, file.skip, cli.skip),
     compress |-> pick(env.compress, file.compress, cli.compress)]

main_rest == <<args, env_config, file_config, enc_vars, dry, route, o_pc,
               final, printed, sent, chan, tx_open, rx_open, held,
               stream_result, disk, duplex, writer_open, reader_open, body,
               up_pc, up_result, requests>>

\* main.rs:94-95: merge the three sources
MainMerge ==
    /\ main_pc = "start"
    /\ merged' = Some(merge_configs(env_config, file_config,
                                    cli_to_config(Cli_parse(args))))
    /\ main_pc' = "merged"
    /\ UNCHANGED main_rest

\* main.rs:104-106: compress defaults to false when no source set it
MainDefaults ==
    /\ main_pc = "merged"
    /\ merged' = IF merged[1].compress = None
                 THEN Some([merged[1] EXCEPT !.compress = Some(FALSE)])
                 ELSE merged
    /\ main_pc' = "defaults"
    /\ UNCHANGED main_rest

\* main.rs:109-119: output and paths are required
MainValidate ==
    /\ main_pc = "defaults"
    /\ main_pc' = IF merged[1].output = None \/ merged[1].output = Some("")
                  THEN "exit2"
                  ELSE IF merged[1].paths = None \/ merged[1].paths = Some(<<>>)
                  THEN "exit3"
                  ELSE "valid"
    /\ UNCHANGED <<merged, main_rest>>

\* main.rs:137-151: a dry run lists and returns, otherwise the backup
MainRun ==
    /\ main_pc = "valid"
    /\ main_pc' = IF merged[1].dry = Some(TRUE) THEN "dry_run" ELSE "backup"
    /\ UNCHANGED <<merged, main_rest>>

InitCfg ==
    /\ args \in ArgsSet
    /\ env_config \in EnvConfigs
    /\ file_config \in FileConfigs
    /\ merged = None
    /\ main_pc = "start"
    /\ files = <<>>
    /\ compression = "Store"
    /\ overflow_checks = FALSE
    /\ pc = "loop"
    /\ idx = 1
    /\ out = <<>>
    /\ current_offset = Zero64
    /\ central_directory_entries = <<>>
    /\ local_header_offset = Zero64
    /\ crc = <<0, 0>>
    /\ uncompressed_size = Zero64
    /\ compressed_size = Zero64
    /\ pos = 0
    /\ enc_in = 0
    /\ cd_idx = 1
    /\ central_dir_offset = Zero64
    /\ result = "none"
    /\ dry = "None"
    /\ route = "none"
    /\ o_pc = "idle"
    /\ final = "none"
    /\ printed = FALSE
    /\ sent = <<>>
    /\ chan = <<>>
    /\ tx_open = FALSE
    /\ rx_open = FALSE
    /\ held = NoChunk
    /\ stream_result = "none"
    /\ disk = NoDisk
    /\ duplex = <<>>
    /\ writer_open = FALSE
    /\ reader_open = FALSE
    /\ body = <<>>
    /\ up_pc = "idle"
    /\ up_result = "none"
    /\ requests = <<>>

NextCfg ==
    \/ MainMerge
    \/ MainDefaults
    \/ MainValidate
    \/ MainRun

SpecCfg == InitCfg /\ [][NextCfg]_vars

\* ------------------------------------------------------------------------
\* Reading the output back
\* ------------------------------------------------------------------------

\* the w bytes at offset off of a record
Field(bytes, off, w) == SubSeq(bytes, off + 1, off + w)

\* positions in out of the segments of a kind
SegsOfKind(kind) == { k \in 1..Len(out) : out[k].kind = kind }

\* positions in out of the segments of a kind written for entry e
SegsOf(kind, e) == { k \in SegsOfKind(kind) : out[k].entry = e }

\* number of bytes written before segment k
BytesBefore(k) == Written(SubSeq(out, 1, k - 1))

\* the payload bytes written for entry e (none written: empty)
PayloadOf(e) ==
    IF SegsOf("data", e) = {} THEN <<>>
    ELSE out[CHOOSE k \in SegsOf("data", e) : TRUE].bytes

\* the bytes of the trailing descriptor of entry e
DescriptorOf(e) == out[CHOOSE k \in SegsOf("desc", e) : TRUE].bytes

\* the directory records written, in output order
DirectorySegs == SelectSeq(out, LAMBDA s : s.kind = "cd")

\* the source bytes of entry e
SourceData(e) == FileSystem[files[e].source_path].data

\* a little-endian 32-bit field as a u64
FieldAsU64(b) == <<b[1] + 256 * b[2], b[3] + 256 * b[4], 0, 0>>

\* ------------------------------------------------------------------------
\* Properties
\* ------------------------------------------------------------------------

\* C1: the local-header offset recorded for an entry equals the number of
\* bytes written to the output before that entry's local header.
C1_OffsetIsBytesWritten ==
    \A e \in 1..Len(central_directory_entries) :
        \A k \in SegsOf("local", e) :
            central_directory_entries[e].local_header_offset = U64Of(BytesBefore(k))

\* C2: after a successful run the terminator's directory offset is the
\* number of bytes written before the first directory record, and its
\* directory size is the number of bytes written for all directory records.
C2_TerminatorLocatesDirectory ==
    result = "Ok" =>
        LET terminator == out[Len(out)].bytes
            first == CHOOSE k \in SegsOfKind("cd") \cup SegsOfKind("eocd") :
                        \A j \in SegsOfKind("cd") \cup SegsOfKind("eocd") : k <= j
        IN  /\ Field(terminator, 16, 4) = write_u32(U32Of(BytesBefore(first)))
            /\ Field(terminator, 12, 4) =
                   write_u32(U32Of(BytesBefore(Len(out)) - BytesBefore(first)))

\* C3: the compressed size in an entry's trailing descriptor and directory
\* record is the number of payload bytes written for it, the uncompressed
\* size is the number of bytes read from the source, and under Store the
\* payload is the source, byte for byte.
C3_SizesMatchPayload ==
    \A e \in 1..Len(files) :
        SegsOf("desc", e) # {} =>
            /\ Field(DescriptorOf(e), 8, 8) = write_u64(U64Of(Len(PayloadOf(e))))
            /\ Field(DescriptorOf(e), 16, 8) = write_u64(U64Of(Len(SourceData(e))))
            /\ e <= Len(central_directory_entries) =>
                 /\ central_directory_entries[e].compressed_size = U64Of(Len(PayloadOf(e)))
                 /\ central_directory_entries[e].uncompressed_size = U64Of(Len(SourceData(e)))
            /\ compression = "Store" => PayloadOf(e) = SourceData(e)

\* C4: the directory lists the entries in input order, one record per
\* entry under the entry's stored name, and the recorded local-header
\* offsets increase strictly from one record to the next.
C4_InputOrder ==
    /\ Len(central_directory_entries) <= Len(files)
    /\ \A k \in 1..Len(central_directory_entries) :
           central_directory_entries[k].file_name = files[k].archive_path
    /\ \A k \in 1..(Len(central_directory_entries) - 1) :
           Lt64(central_directory_entries[k].local_header_offset,
                central_directory_entries[k + 1].local_header_offset)
    /\ Len(DirectorySegs) <= Len(central_directory_entries)
    /\ \A k \in 1..Len(DirectorySegs) :
           /\ DirectorySegs[k].entry = k
           /\ Field(DirectorySegs[k].bytes, 46, Len(files[k].archive_path))
                  = files[k].archive_path
    /\ \A k \in 1..(Len(DirectorySegs) - 1) :
           Lt64(FieldAsU64(Field(DirectorySegs[k].bytes, 42, 4)),
                FieldAsU64(Field(DirectorySegs[k + 1].bytes, 42, 4)))
    /\ result = "Ok" => Len(DirectorySegs) = Len(files)

\* a finished archive of at least two different entries
C4_Witness ==
    /\ result = "Ok"
    /\ Len(files) >= 2
    /\ files[1].archive_path # files[2].archive_path

\* CRC-32 of each source of the file system, computed in one call
SourceCrc ==
    [p \in DOMAIN FileSystem |-> Not32(crc32(FileSystem[p].data, CrcInit))]

\* C5: the CRC-32 in an entry's trailing descriptor and directory record is
\* the standard CRC-32 of the source bytes (check value 0xCBF43926 for
\* "123456789"), however the reads split the source into chunks.
C5_CrcOfSource ==
    /\ SourceCrc["digits"] = <<\H3926, \HCBF4>>
    /\ SourceCrc["empty"] = <<0, 0>>
    /\ \A e \in 1..Len(files) :
           SegsOf("desc", e) # {} =>
               LET expected == SourceCrc[files[e].source_path]
               IN  /\ Field(DescriptorOf(e), 4, 4) = write_u32(expected)
                   /\ e <= Len(central_directory_entries) =>
                          central_directory_entries[e].crc32 = expected
                   /\ \A k \in SegsOf("cd", e) :
                          Field(out[k].bytes, 16, 4) = write_u32(expected)

\* a finished archive holding the nine digits
C5_Witness ==
    /\ result = "Ok"
    /\ \E e \in 1..Len(files) :
           /\ files[e].source_path = "digits"
           /\ SegsOf("cd", e) # {}

\* C6: encoding an empty entry list never fails on the encoder's side and
\* produces exactly one terminator record with entry count 0, directory
\* size 0 and directory offset 0, and nothing else.
C6_EmptyArchive ==
    files = <<>> =>
        /\ result \in {"none", "Ok", "WriteError"}
        /\ SegsOfKind("local") = {}
        /\ SegsOfKind("cd") = {}
        /\ result = "Ok" =>
               out = <<Segment("eocd", 0,
                               <<80, 75, 5, 6, 0, 0, 0, 0, 0, 0, 0, 0,
                                 0, 0, 0, 0, 0, 0, 0, 0, 0, 0>>)>>

\* the empty list was encoded
C6_Witness == files = <<>> /\ result = "Ok"

\* C7: the terminator is written at most once, as the last thing written,
\* after the directory records of all entries, only when every entry was
\* encoded; a run that failed has written no terminator.
C7_TerminatorOnceLast ==
    /\ Cardinality(SegsOfKind("eocd")) <= 1
    /\ \A k \in SegsOfKind("eocd") :
           /\ k = Len(out)
           /\ result = "Ok"
           /\ Len(DirectorySegs) = Len(files)
           /\ \A j \in SegsOfKind("cd") : j < k
           /\ \A e \in 1..Len(files) :
                  SegsOf("local", e) # {} /\ SegsOf("desc", e) # {}
    /\ result = "Ok" => SegsOfKind("eocd") # {}
    /\ result \notin {"none", "Ok"} => SegsOfKind("eocd") = {}

\* a finished archive with entries
C7_Witness == result = "Ok" /\ Len(files) >= 1 /\ SegsOfKind("cd") # {}

\* entry e's source is missing or not a regular file
BadSource(e) ==
    ~(FileSystem[files[e].source_path].exists /\ FileSystem[files[e].source_path].is_file)

\* C8: at an entry whose source is missing or not a regular file the run
\* returns NotFound, respectively InvalidInput, without writing anything
\* for that entry or a later one, without directory or terminator, and
\* with the earlier entries' bytes in place.
C8_BadSourceFailsFast ==
    /\ \A e \in 1..Len(files) :
           BadSource(e) =>
               /\ idx <= e
               /\ \A k \in 1..Len(out) :
                      out[k].entry < e /\ out[k].kind \notin {"cd", "eocd"}
               /\ (idx = e /\ pc # "loop") =>
                      /\ pc = "done"
                      /\ result = IF FileSystem[files[e].source_path].exists
                                  THEN "InvalidInput" ELSE "NotFound"
    /\ result \in {"NotFound", "InvalidInput"} =>
           /\ pc = "done"
           /\ idx <= Len(files)
           /\ BadSource(idx)
           /\ Len(central_directory_entries) = idx - 1
           /\ SegsOfKind("torn") = {}
           /\ \A e \in 1..(idx - 1) :
                  SegsOf("local", e) # {} /\ SegsOf("desc", e) # {}

\* a directory met as the second entry, after the first was written
C8_Witness ==
    /\ result = "InvalidInput"
    /\ idx = 2
    /\ SegsOf("desc", 1) # {}

Exceeds(rec) ==
    \/ Gt32(rec.compressed_size)
    \/ Gt32(rec.uncompressed_size)
    \/ Gt32(rec.local_header_offset)

Sentinel32 == <<255, 255, 255, 255>>

\* a 32-bit field that carries v when v fits and the sentinel when not
Capped(field, v) ==
    IF Gt32(v) THEN field = Sentinel32 ELSE field = write_u32(<<v[1], v[2]>>)

\* the bytes of a directory record after its stored name
ExtraOf(seg, rec) == SubSeq(seg.bytes, 46 + Len(rec.file_name) + 1, Len(seg.bytes))

C11_TerminatorFieldsCapped ==
    \A k \in SegsOfKind("eocd") :
        LET b == out[k].bytes
            n == Len(central_directory_entries)
            count == IF n > U16Max THEN U16Max ELSE n
        IN  /\ Field(b, 8, 2) = write_u16(count)
            /\ Field(b, 10, 2) = write_u16(count)
            /\ Capped(Field(b, 12, 4), Sub64(current_offset, central_dir_offset).v)
            /\ Capped(Field(b, 16, 4), central_dir_offset)

\* the byte stream of the chunks the producing side emitted
SentRuns == [k \in 1..Len(sent) |-> [id |-> sent[k].id, n |-> sent[k].len]]

\* the producing side, the streaming call or the upload ended in an error
Failures == {result, stream_result, up_result} \ {"none", "Ok"}

\* C12: a run that is not a dry run returns one result.  It is Ok only if
\* the encoder finished the whole archive and the destination took all of
\* it (the file holds every emitted byte; the upload got every emitted byte
\* and was answered with a 2xx status); if a side failed it is not Ok, and
\* an error returned is the error of one of the sides.
C12_OneTerminalResult ==
    (final # "none" /\ dry # "true") =>
        /\ o_pc = "done"
        /\ final = "Ok" =>
              /\ result = "Ok"
              /\ Failures = {}
              /\ route = "SaveToFile" => disk.file = SentRuns
              /\ route # "SaveToFile" =>
                    /\ up_result = "Ok"
                    /\ is_success(requests[1].status)
                    /\ body = SentRuns
        /\ final # "Ok" => final \in Failures \cup {"CreateError"}

\* C13: with the dry-run flag set, process_files prints the plan and
\* returns Ok, and nothing else happens: no directory or file is created or
\* truncated, no HTTP request is issued, no source is checked, opened or
\* read and nothing is encoded.
C13_DryRunDoesNothing ==
    dry = "true" =>
        /\ o_pc \in {"process", "done"}
        /\ o_pc = "done" => final = "Ok" /\ printed
        /\ disk \in {NoDisk, OldDisk}
        /\ requests = <<>>
        /\ up_pc = "idle"
        /\ ~tx_open /\ pc = "loop" /\ idx = 1 /\ pos = 0
        /\ sent = <<>> /\ body = <<>>

\* a dry run over a non-empty entry list has returned
C13_Witness == dry = "true" /\ o_pc = "done" /\ final = "Ok" /\ Len(files) >= 1

\* the byte stream a is a prefix of the byte stream b
RunPrefix(a, b) ==
    \/ a = <<>>
    \/ /\ Len(a) <= Len(b)
       /\ \A i \in 1..(Len(a) - 1) : a[i] = b[i]
       /\ a[Len(a)].id = b[Len(a)].id
       /\ a[Len(a)].n <= b[Len(a)].n

\* C14: with SaveToFile, whenever a byte has been emitted the parent
\* directories exist and the target file has been created and truncated;
\* the file holds the emitted chunks in emission order; and from the moment
\* the file is created it is never removed and never loses a byte, also
\* when the run fails.
C14_FileSink ==
    /\ [](route = "SaveToFile" =>
            /\ (sent # <<>> \/ o_pc = "streaming") =>
                  /\ disk.dirs
                  /\ disk.exists
                  /\ \A i \in 1..Len(disk.file) : disk.file[i].id > 0
            /\ (o_pc = "streaming" \/ stream_result # "none") =>
                  /\ disk.exists
                  /\ RunPrefix(disk.file, SentRuns))
    /\ [][(route = "SaveToFile" /\ o_pc = "streaming") =>
            /\ disk'.exists
            /\ RunPrefix(disk.file, disk'.file)]_vars

\* a run failed after part of the archive was written, and the part is
\* still in the file
C14_Witness ==
    /\ route = "SaveToFile"
    /\ final \notin {"none", "Ok"}
    /\ disk.exists /\ disk.file # <<>>
    /\ Len(disk.file) < Len(sent)

\* C15: an upload issues one POST with Content-Type application/zip and
\* never a second request; the upload is a success exactly when the
\* response status is 2xx; a non-2xx status or a transport failure makes
\* the run fail.
C15_OnePostSuccessIs2xx ==
    route \in {"UploadToUrl", "SendHttp"} =>
        /\ Len(requests) <= 1
        /\ \A i \in 1..Len(requests) :
              /\ requests[i].method = "POST"
              /\ requests[i].content_type = "application/zip"
        /\ up_pc = "done" => (up_result = "Ok" <=> is_success(requests[1].status))
        /\ (up_pc = "done" /\ ~is_success(requests[1].status) /\ final # "none")
              => final # "Ok"

\* the value set for a field by the sources below the command line
BelowCli(f) == or(file_config[f], env_config[f])

\* Option::unwrap_or
unwrap_or(a, d) == IF a = None THEN d ELSE a[1]

\* C16: after the merge every field is the command line's value if the user
\* gave that option, otherwise the file's value if set, otherwise the
\* environment's; a dry, compress or max_size set only in the file or the
\* environment is kept when the option was not passed.  (A field no source
\* sets counts as its default: false, 0.)
C16_MergeByPriority ==
    main_pc = "merged" =>
        LET m == merged[1] IN
        /\ m.output = or(args.output, BelowCli("output"))
        /\ unwrap_or(m.dry, FALSE) =
              unwrap_or(IF args.dry THEN Some(TRUE) ELSE BelowCli("dry"), FALSE)
        /\ unwrap_or(m.compress, FALSE) =
              unwrap_or(IF args.compress THEN Some(TRUE) ELSE BelowCli("compress"), FALSE)
        /\ unwrap_or(m.max_size, 0) =
              unwrap_or(or(args.max_size, BelowCli("max_size")), 0)
        /\ m.skip = (IF args.skip # <<>> THEN Some(args.skip) ELSE BelowCli("skip"))
        /\ m.paths = (IF args.paths # <<>> THEN Some(args.paths) ELSE BelowCli("paths"))

\* the results of a producer that failed on a source
SourceFailures == {"NotFound", "InvalidInput", "IoError"}

\* C17: when the producing side has failed on a source, the upload task of
\* stream_zip_to_sink never completes as a success.
C17_ProducerFailureFailsUpload ==
    (route = "UploadToUrl" /\ result \in SourceFailures) => up_result # "Ok"

\* chunks that left the producer and have not reached the destination
InFlight == Len(chan) + (IF held = NoChunk THEN 0 ELSE 1)

\* C18: the conduit never holds more than its capacity (the chunk conduit
\* ChanCapacity chunks, the duplex DuplexCapacity bytes); a send completes
\* only in a state where there was room, one chunk at a time; so with a
\* consumer that does not read, the producer emits nothing once the
\* conduit is full, and at most capacity plus one chunk is in flight.
C18_ConduitBounded ==
    /\ [](/\ Len(chan) <= ChanCapacity
          /\ RunBytes(duplex) <= DuplexCapacity
          /\ InFlight <= ChanCapacity + 1)
    /\ [][sent' # sent =>
            /\ Len(chan) < ChanCapacity
            /\ Len(sent') = Len(sent) + 1
            /\ chan' = Append(chan, sent'[Len(sent')])]_vars
    /\ [][RunBytes(duplex') > RunBytes(duplex) =>
            RunBytes(duplex) < DuplexCapacity]_vars

\* the producer is blocked in a send: the chunk conduit is full, the duplex
\* is full and the consumer holds the rest of a chunk
C18_Witness ==
    /\ tx_open /\ rx_open
    /\ Len(chan) = ChanCapacity
    /\ RunBytes(duplex) = DuplexCapacity
    /\ held.left > 0

\* the runs of stream_zip_to_sink
StreamRoutes == {"SaveToFile", "UploadToUrl"}

\* positions of the producer where its next step is a send
SendPcs == {"header", "finish", "descriptor", "cd"}

\* C19: in a run of stream_zip_to_sink, once the consumer has dropped its
\* end the producer emits no chunk and completes no entry; its next send
\* fails and it returns ChannelClosed at once; after that it has written no
\* terminator, does nothing more, and the run does not return Ok.
C19_ConsumerGoneAbortsProducer ==
    /\ [](route \in StreamRoutes /\ result = "ChannelClosed" =>
            /\ pc = "done" /\ ~tx_open /\ ~rx_open
            /\ \A k \in 1..Len(sent) : sent[k].kind # "eocd"
            /\ final # "Ok")
    /\ [][(route \in StreamRoutes /\ ~rx_open /\ tx_open) =>
            /\ sent' = sent
            /\ idx' = idx
            /\ (pc \in SendPcs /\ pc' # pc) =>
                  /\ result' = "ChannelClosed"
                  /\ pc' = "done"
                  /\ ~tx_open']_vars
    /\ [][(route \in StreamRoutes /\ result = "ChannelClosed") =>
            UNCHANGED <<pc, idx, cd_idx, sent, result, tx_open>>]_vars

\* the consumer failed in the middle of an archive, the producer's send
\* failed and the run returned the error
C19_Witness ==
    /\ route \in StreamRoutes
    /\ result = "ChannelClosed"
    /\ sent # <<>>
    /\ idx <= Len(files)
    /\ final \notin {"none", "Ok"}

\* what the destination has received
Delivered ==
    IF route = "SaveToFile" THEN disk.file ELSE body

\* what is on the way to the destination, in order
OnTheWay ==
    LET inChan == [k \in 1..Len(chan) |-> [id |-> chan[k].id, n |-> chan[k].len]]
    IN  JoinRuns(AddRun(duplex, held.id, held.left), inChan)

\* the conduit of the run was opened
Started == rx_open \/ sent # <<>> \/ stream_result # "none" \/ up_result # "none"

\* nothing was dropped: in a run of stream_zip_to_sink no side has stopped
\* on an error
NothingDropped ==
    /\ Started
    /\ route \in StreamRoutes
    /\ stream_result \in {"none", "Ok"}
    /\ up_result \in {"none", "Ok"}
    /\ up_pc # "cancelled"
    /\ result \in {"none", "Ok"}

\* C20: what the destination received is at every moment a prefix of what
\* the producer emitted; as long as no side has failed, what was received
\* followed by what is on the way is exactly what was emitted (no loss, no
\* duplication, no reordering); and no local header or payload chunk of an
\* entry is emitted before the descriptor of every earlier entry.
C20_FifoNoInterleaving ==
    /\ Started => RunPrefix(Delivered, SentRuns)
    /\ NothingDropped => JoinRuns(Delivered, OnTheWay) = SentRuns
    /\ \A j \in 1..Len(sent) :
          /\ sent[j].id = j
          /\ sent[j].kind \in {"local", "data"} =>
                \A e \in 1..(sent[j].entry - 1) :
                    \E i \in 1..(j - 1) :
                        sent[i].kind = "desc" /\ sent[i].entry = e
          /\ sent[j].kind \in {"data", "desc"} =>
                \E i \in 1..(j - 1) :
                    sent[i].kind = "local" /\ sent[i].entry = sent[j].entry

\* an upload of two entries has delivered all of the second entry's chunks
\* while the terminator was still on the way or delivered
C20_Witness ==
    /\ route = "UploadToUrl"
    /\ Len(files) = 2
    /\ body # <<>>
    /\ \E j \in 1..Len(sent) : sent[j].kind = "desc" /\ sent[j].entry = 2
    /\ \E k \in 1..Len(body) : sent[body[k].id].entry = 2

\* entries whose trailing descriptor has been written completely
DescribedEntries == { out[k].entry : k \in SegsOfKind("desc") }

\* C22: the list holds one record per entry whose descriptor has been
\* written, in every state but the one between the descriptor write and
\* the push that follows it in the same iteration, where the record of the
\* entry just described is still to come; the records are those of entries
\* 1..idx-1, so an entry that fails leaves none; a record, once appended,
\* never changes and the list never shrinks.
C22_RecordAfterDescriptor ==
    /\ [](/\ Len(central_directory_entries) = idx - 1
          /\ DescribedEntries =
                1..(Len(central_directory_entries) + (IF pc = "push" THEN 1 ELSE 0))
          /\ \A e \in DescribedEntries :
                /\ Cardinality(SegsOf("desc", e)) = 1
                /\ Cardinality(SegsOf("local", e)) = 1
                /\ \A d \in SegsOf("desc", e) :
                      /\ \A l \in SegsOf("local", e) : l < d
                      /\ \A l \in SegsOf("data", e) : l < d
                      /\ Len(out[d].bytes) = 24)
    /\ [][/\ Len(central_directory_entries') >= Len(central_directory_entries)
          /\ \A k \in 1..Len(central_directory_entries) :
                central_directory_entries'[k] = central_directory_entries[k]]_vars

\* the second entry failed after its local header was written: the list
\* holds the record of the first entry only
C22_Witness ==
    /\ result \notin {"none", "Ok"}
    /\ Len(central_directory_entries) = 1
    /\ SegsOf("local", 2) # {}
    /\ SegsOf("desc", 2) = {}

\* C23: every local header has flag 0x0008 (bit 3, sizes deferred), zero
\* CRC, compressed-size and uncompressed-size fields, extra length 0, the
\* entry's stored name and the archive's method code (0 Store, 8 Deflate);
\* an entry that is complete has its descriptor after its header and
\* payload and before the next header; a directory record has the flag,
\* method, time, date, name length and name of its entry's local header.
C23_DeferredSizesMirrored ==
    /\ \A k \in SegsOfKind("local") :
          LET b == out[k].bytes
              name == files[out[k].entry].archive_path
          IN  /\ Field(b, 6, 2) = <<8, 0>>
              /\ Field(b, 8, 2) = write_u16(IF compression = "Store" THEN 0 ELSE 8)
              /\ Field(b, 14, 12) = <<0, 0, 0, 0, 0, 0, 0, 0, 0, 0, 0, 0>>
              /\ Field(b, 28, 2) = <<0, 0>>
              /\ Len(b) = 30 + Len(name)
              /\ Field(b, 30, Len(name)) = name
    /\ \A k \in SegsOfKind("local") :
          \A l \in SegsOfKind("local") :
              k < l => \E d \in SegsOf("desc", out[k].entry) : k < d /\ d < l
    /\ result = "Ok" =>
          \A k \in SegsOfKind("local") :
              \E d \in SegsOf("desc", out[k].entry) : k < d
    /\ \A k \in SegsOfKind("cd") :
          \E l \in SegsOf("local", out[k].entry) :
              LET c == out[k].bytes
                  b == out[l].bytes
                  n == Len(files[out[k].entry].archive_path)
              IN  /\ Field(c, 8, 2) = Field(b, 6, 2)
                  /\ Field(c, 10, 2) = Field(b, 8, 2)
                  /\ Field(c, 12, 4) = Field(b, 10, 4)
                  /\ Field(c, 28, 2) = Field(b, 26, 2)
                  /\ Field(c, 46, n) = Field(b, 30, n)

\* a finished Deflate archive of two entries
C23_Witness ==
    /\ result = "Ok"
    /\ compression = "Deflate"
    /\ Cardinality(SegsOfKind("local")) = 2
    /\ Cardinality(SegsOfKind("cd")) = 2

\* C21: under fair scheduling and a destination that keeps accepting, the
\* producer's end of the conduit is closed whenever the producer is done,
\* the producer always gets done, the read loop of stream_zip_to_writer
\* returns once the producer's end is closed, and every run returns.
C21_RunTerminates ==
    /\ [](pc = "done" => ~tx_open)
    /\ tx_open ~> ~tx_open
    /\ (route \in StreamRoutes /\ Started /\ ~tx_open) ~> (stream_result # "none")
    /\ <>(o_pc = "done")

\* an upload run returned after the producer failed and closed its end
C21_Witness ==
    /\ route = "UploadToUrl"
    /\ o_pc = "done"
    /\ result \in SourceFailures
    /\ ~tx_open
    /\ sent # <<>>

====
